---- MODULE Spec2Model ----
(***************************************************************************)
(* Liveness-driven local-memory allocation of the ONNC compiler:           *)
(* MemoryAllocation::allocByLiveness (the greedy interval allocator) and   *)
(* MemoryAllocation::runOnModule (the sub-graph planner and the splitting  *)
(* controller), lib/Analysis/MemoryAllocation.cpp.                         *)
(*                                                                         *)
(* SpecAlloc runs the allocator alone on every input within the bounds.    *)
(* Spec runs the whole pass; FairSpec is Spec with the weak fairness of a  *)
(* single-threaded call/return program (it never stops while it can step). *)
(***************************************************************************)
EXTENDS Integers, Sequences, FiniteSets, TLC

\* ------------------------------------------------------------------ bounds
\* number of live intervals handed to the allocator in SpecAlloc
MaxVals == 4
\* instruction positions are 0..MaxPos
MaxPos == 1
\* requested sizes in SpecAlloc are 1..MaxSize
MaxSize == 2
\* allocator runs on one input in SpecAlloc
MaxRuns == 2
\* values (graph nodes) of the module the pass runs on in Spec
NumNodes == 2
\* values of the module in SpecDeep, where the worklist holds several entries
NumNodesDeep == 3
\* original sizes of the values are 1..MaxNodeSize or one of LargeSizes
MaxNodeSize == 2
\* getLocalMemSize() is 1..MaxBudget
MaxBudget == 3
\* byte sizes beyond 2^24, where a binary32 float no longer holds every integer
LargeSizes == {18000001, 20000000}

VARIABLES
  livesInfo,       \* liveAnaly->getLiveIntervals(): sequence of live intervals
  valMemSMap,      \* the ValMemSizeMap of the last allocator run
  m_MemAllocList,  \* MemoryAllocation::m_MemAllocList
  minSize,         \* value returned by the last allocByLiveness
  runs,            \* number of allocator runs so far (history)
  prevRun,         \* result of the allocator run before the last one (history)
  m_DLATB,         \* MemoryAllocation::m_DLATB is non-null
  localMemSize,    \* m_DLATB->getMemInfo()->getLocalMemSize()
  pc,              \* position of runOnModule
  ret,             \* value runOnModule returned
  worklist,        \* std::vector<SplitGraph*> worklist
  spGraph,         \* the sub-graph being planned
  prevMinSize,     \* prevMinSize of the planner loop
  sgNodes,         \* SplitGraphManager: the values of each sub-graph
  curSize,         \* SplitGraph: the requested size of each value
  origSize,        \* SplitGraph: the original size of each value
  shrinkPolicy,    \* SplitGraph: how shrinkSize reduces the sizes
  graphVersion,    \* number of structural splits of the graph so far
  schedVersion,    \* graphVersion the instruction schedule was computed for
  liveVersion,     \* graphVersion the live intervals were computed for
  invoked,         \* collaborators invoked so far (history)
  iter,            \* what the last planner iteration did (history)
  status,          \* state of each sub-graph (history)
  sgPeak,          \* peak of the last allocator run of each sub-graph (history)
  unableDiag,      \* sub-graphs the "Unable to allocate" line was printed for
  parent           \* the sub-graph each sub-graph was split off from (history)

allocVars == <<livesInfo, valMemSMap, m_MemAllocList, minSize>>
histAlloc == <<runs, prevRun>>
ctlVars == <<m_DLATB, localMemSize, pc, ret, worklist, spGraph, prevMinSize>>
sgVars == <<sgNodes, curSize, origSize, shrinkPolicy, graphVersion, schedVersion,
           liveVersion>>
histVars == <<invoked, iter, status, sgPeak, unableDiag, parent>>

vars == <<allocVars, histAlloc, ctlVars, sgVars, histVars>>

\* ------------------------------------------------------- pure functions
Max(a, b) == IF a >= b THEN a ELSE b

\* LiveInterval::intersect: closed intervals [start, end] overlap
Intersect(a, b) == ~(a.end < b.start \/ b.end < a.start)

\* struct MemRegion
MemRegion(pStart, pSize) == [start |-> pStart, size |-> pSize]

\* new MemAllocEntry(startAddr, required, *li)
MemAllocEntry(pStart, pSize, pIntrvl) ==
  [startAddr |-> pStart, size |-> pSize, liveIntrvl |-> pIntrvl]

\* HasConflict taking regions that only touch as conflicting (mutant)
HasConflictClosed(pStartA, pSizeA, pStartB, pSizeB) ==
  LET endA == pStartA + pSizeA
      endB == pStartB + pSizeB
  IN  ~(endA < pStartB \/ endB < pStartA)

\* HasConflict: the half-open ranges [start, start+size) overlap
HasConflict(pStartA, pSizeA, pStartB, pSizeB) ==
  LET endA == pStartA + pSizeA
      endB == pStartB + pSizeB
  IN  ~(endA <= pStartB \/ endB <= pStartA)

\* the indices of the entries whose live interval intersects pIntrvl, in list
\* order (the loop of GetUsedMemRegions)
RECURSIVE CollectRegions(_, _, _)
CollectRegions(pAllocs, pIntrvl, i) ==
  IF i > Len(pAllocs) THEN <<>>
  ELSE LET rest == CollectRegions(pAllocs, pIntrvl, i + 1)
       IN  IF ~Intersect(pAllocs[i].liveIntrvl, pIntrvl) THEN rest
           ELSE <<MemRegion(pAllocs[i].startAddr, pAllocs[i].size)>> \o rest

IndexOrders(n) == {f \in [1..n -> 1..n] : \A i, j \in 1..n : i # j => f[i] # f[j]}

\* std::sort with the comparator ra.start < rb.start: some permutation of the
\* regions in non-decreasing start order; the order of regions with equal
\* start is unspecified (std::sort is not stable), so every such order is an
\* outcome.
StdSort(regions) ==
  LET n == Len(regions)
  IN  { [i \in 1..n |-> regions[f[i]]] :
          f \in { g \in IndexOrders(n) :
                    \A i \in 1..n, j \in 1..n :
                      i < j => ~(regions[g[j]].start < regions[g[i]].start) } }

\* GetUsedMemRegions returning the regions in list order, unsorted (mutant)
GetUsedMemRegionsUnsorted(pAllocs, pIntrvl) == { CollectRegions(pAllocs, pIntrvl, 1) }

\* the outcomes of GetUsedMemRegions(pAllocs, pIntrvl)
GetUsedMemRegions(pAllocs, pIntrvl) == StdSort(CollectRegions(pAllocs, pIntrvl, 1))

\* the scan of allocByLiveness over the sorted conflicts
RECURSIVE ScanConflicts(_, _, _, _)
ScanConflicts(conflicts, i, startAddr, required) ==
  IF i > Len(conflicts) THEN startAddr
  ELSE IF ~HasConflict(conflicts[i].start, conflicts[i].size, startAddr, required)
       THEN startAddr
       ELSE ScanConflicts(conflicts, i + 1,
                          conflicts[i].start + conflicts[i].size, required)

\* minSize = std::max(minSize, startAddr + required), with a mutant that keeps
\* the end of the last entry instead
UpdatePeakLast(peak, startAddr, required) == startAddr + required

UpdatePeak(peak, startAddr, required) == Max(peak, startAddr + required)

\* body of the for loop of allocByLiveness from interval i on: the set of
\* results [list, minSize] the run can end with
RECURSIVE AllocLoop(_, _, _, _, _)
AllocLoop(list, peak, i, pValMemSizeMap, lives) ==
  IF i > Len(lives) THEN { [list |-> list, minSize |-> peak] }
  ELSE LET li == lives[i]
       IN  IF li.value \notin DOMAIN pValMemSizeMap
           THEN AllocLoop(list, peak, i + 1, pValMemSizeMap, lives)
           ELSE LET required == pValMemSizeMap[li.value]
                IN  UNION { LET startAddr == ScanConflicts(conflicts, 1, 0, required)
                            IN  AllocLoop(Append(list, MemAllocEntry(startAddr, required, li)),
                                          UpdatePeak(peak, startAddr, required),
                                          i + 1, pValMemSizeMap, lives)
                            : conflicts \in GetUsedMemRegions(list, li) }

\* clear() leaving the entries in place (mutant)
ClearKeeps(list) == list

\* MemoryAllocation::clear: every entry deleted, the list emptied
Clear(list) == <<>>

\* allocByLiveness: clear(), then the loop with minSize = 0
AllocByLiveness(pValMemSizeMap, lives) ==
  AllocLoop(Clear(m_MemAllocList), 0, 1, pValMemSizeMap, lives)

\* ------------------------------------------- (float)minSize / prevMinSize
\* IEEE-754 binary32 as the planner's split test uses it: a conversion of an
\* integer to float, a float division, and a comparison with 0.9f.
MantissaBits == 24

Pow2[k \in Nat] == IF k = 0 THEN 1 ELSE 2 * Pow2[k - 1]

BitLen[n \in Nat] == IF n = 0 THEN 0 ELSE 1 + BitLen[n \div 2]

\* (float)n for an integer n >= 0: n rounded to 24 significant bits, ties to
\* even. The result is again an integer.
ToFloat[n \in Nat] ==
  IF BitLen[n] <= MantissaBits THEN n
  ELSE LET unit == Pow2[BitLen[n] - MantissaBits]
           q == n \div unit
           r == n % unit
           up == (2 * r > unit) \/ (2 * r = unit /\ q % 2 = 1)
       IN  (IF up THEN q + 1 ELSE q) * unit

\* the bits of num / den after the leading 1, by long division:
\* [m |-> mantissa so far, r |-> remainder]
DivBits[m \in Nat, r \in Nat, den \in Nat, k \in Nat] ==
  IF k = 0 THEN [m |-> m, r |-> r]
  ELSE IF 2 * r >= den THEN DivBits[2 * m + 1, 2 * r - den, den, k - 1]
       ELSE DivBits[2 * m, 2 * r, den, k - 1]

\* the mantissa of the quotient rounded to nearest, ties to even
RoundDiv[m \in Nat, r \in Nat, den \in Nat] ==
  IF (2 * r > den) \/ (2 * r = den /\ m % 2 = 1) THEN m + 1 ELSE m

\* num / den for den <= num < 2 * den, the quotient being in [2^ex, 2^(ex+1))
FloatDivNorm[num \in Nat, den \in Nat, ex \in Int] ==
  LET d == DivBits[1, num - den, den, MantissaBits - 1]
      m == RoundDiv[d.m, d.r, den]
  IN  IF m = Pow2[MantissaBits]
      THEN [m |-> Pow2[MantissaBits - 1], e |-> ex + 1 - (MantissaBits - 1)]
      ELSE [m |-> m, e |-> ex - (MantissaBits - 1)]

\* a / b for floats a >= 0, b > 0 holding integers: the quotient rounded to 24
\* significant bits, ties to even, as [m, e] with value m * 2^e and
\* 2^23 <= m < 2^24 (m = 0 for a zero quotient)
FloatDiv[a \in Nat, b \in Nat] ==
  IF a = 0 THEN [m |-> 0, e |-> 0]
  ELSE LET x == BitLen[a] - BitLen[b]
           \* num0 and den0 have the same bit length: den0/2 < num0 < 2*den0
           num0 == IF x < 0 THEN a * Pow2[-x] ELSE a
           den0 == IF x > 0 THEN b * Pow2[x] ELSE b
       IN  IF num0 < den0 THEN FloatDivNorm[2 * num0, den0, x - 1]
           ELSE FloatDivNorm[num0, den0, x]

\* f > g for two non-negative floats in the [m, e] form
FloatGT(f, g) ==
  IF f.m = 0 THEN FALSE
  ELSE IF g.m = 0 THEN TRUE
  ELSE (f.e > g.e) \/ (f.e = g.e /\ f.m > g.m)

\* const float threshold = 0.9f: the float nearest to 9/10
threshold == FloatDiv[9, 10]

\* the split test with >= in place of > (mutant)
SplitRequiredAtLeast(pMinSize, pPrevMinSize) ==
  pPrevMinSize # 0 /\ ~FloatGT(threshold,
                               FloatDiv[ToFloat[pMinSize], ToFloat[pPrevMinSize]])

\* the split test never holding (mutant)
SplitRequiredNever(pMinSize, pPrevMinSize) == FALSE

\* prevMinSize && (float)minSize / prevMinSize > threshold
SplitRequired(pMinSize, pPrevMinSize) ==
  pPrevMinSize # 0 /\ FloatGT(FloatDiv[ToFloat[pMinSize], ToFloat[pPrevMinSize]],
                              threshold)

\* minSize <= localMemSize instead (mutant)
FitsInclusive(pMinSize, pLocalMemSize) == pMinSize <= pLocalMemSize

\* minSize < localMemSize
Fits(pMinSize, pLocalMemSize) == pMinSize < pLocalMemSize

\* ------------------------------------------------- inputs and sub-graphs
Positions == 0..MaxPos
Intervals == { iv \in [start : Positions, end : Positions] : iv.start <= iv.end }

\* the live intervals of the values 1..n, in list order
LiveLists(n) ==
  { [i \in 1..n |-> [value |-> i, start |-> f[i].start, end |-> f[i].end]] :
      f \in [1..n -> Intervals] }

SizeMaps(n) == UNION { [S -> 1..MaxSize] : S \in SUBSET (1..n) }

\* the values of the module's graph
Nodes == DOMAIN origSize
SizeDom == (1..MaxNodeSize) \cup LargeSizes

\* the live intervals of all values of the module, in the order the liveness
\* provider chooses
ModuleLives ==
  { [i \in Nodes |-> lv[f[i]]] : lv \in LiveLists(Len(origSize)), f \in IndexOrders(Len(origSize)) }

\* SplitGraph::getMemUsage: the requested size of every value of the sub-graph
GetMemUsage(sg) == [v \in sgNodes[sg] |-> curSize[v]]

\* a size reduced by 10%, rounded down or up to whole bytes, not below 1
TenthDown(n) == Max(1, (9 * n) \div 10)
TenthUp(n) == Max(1, (9 * n + 9) \div 10)

\* SplitGraph::shrinkSize: the size assignments one shrink step can leave; no
\* size grows and none goes below the floor of 1. The policy is the
\* sub-graph's: any reduction within the size domain, or 10% of every size.
ShrinkSize(sg) ==
  IF shrinkPolicy = "any"
  THEN { c \in [Nodes -> SizeDom] :
           \A v \in Nodes : IF v \in sgNodes[sg] THEN c[v] <= curSize[v]
                                                 ELSE c[v] = curSize[v] }
  ELSE { [v \in Nodes |-> IF v \notin sgNodes[sg] THEN curSize[v]
                          ELSE IF shrinkPolicy = "tenthDown" THEN TenthDown(curSize[v])
                          ELSE TenthUp(curSize[v])] }

\* SplitGraph::resetToOrigSize
ResetToOrigSize(sg) == [v \in Nodes |-> IF v \in sgNodes[sg] THEN origSize[v] ELSE curSize[v]]

\* SplitGraphManager::splitNewSubGraph: the values that can be split off into a
\* new sub-graph; none when the sub-graph is a single node
SplitNewSubGraph(sg) == { S \in SUBSET sgNodes[sg] : S # {} /\ S # sgNodes[sg] }

NoIter == [sg |-> 0, prev |-> 0, peak |-> 0, calls |-> <<>>, sizesAtSplit |-> <<>>,
           schedVersion |-> 0, liveVersion |-> 0, graphVersion |-> 0]

InitCommon ==
  /\ m_MemAllocList = <<>>
  /\ minSize = 0
  /\ runs = 0
  /\ prevRun = [list |-> <<>>, minSize |-> 0]
  /\ pc = "entry"
  /\ ret = "none"
  /\ worklist = <<>>
  /\ spGraph = 0
  /\ prevMinSize = 0
  /\ sgNodes = <<Nodes>>
  /\ graphVersion = 0
  /\ schedVersion = -1
  /\ liveVersion = -1
  /\ invoked = {}
  /\ iter = NoIter
  /\ status = <<"Created">>
  /\ sgPeak = <<0>>
  /\ unableDiag = {}
  /\ parent = <<0>>

\* ----------------------------------------------------------- runOnModule
\* The pass object after construction, for every module within the bounds.
Init ==
  /\ origSize \in [1..NumNodes -> SizeDom]
  /\ curSize = origSize
  /\ shrinkPolicy = "any"
  /\ InitCommon
  /\ livesInfo = <<>>
  /\ valMemSMap = <<>>
  /\ m_DLATB \in BOOLEAN
  /\ localMemSize \in 1..MaxBudget

\* if (!m_DLATB) return kPassFailure; with a mutant that only prints and goes on
NoBackendGoesOn ==
  /\ pc = "entry"
  /\ ~m_DLATB
  /\ \E lv \in ModuleLives : livesInfo' = lv
  /\ schedVersion' = graphVersion
  /\ liveVersion' = graphVersion
  /\ m_MemAllocList' = <<>>
  /\ worklist' = <<1>>
  /\ status' = [status EXCEPT ![1] = "Pending"]
  /\ invoked' = invoked \cup {"scheduler", "liveness", "clear"}
  /\ pc' = "worklist"
  /\ UNCHANGED <<valMemSMap, minSize, histAlloc, m_DLATB, localMemSize, ret, spGraph,
                 prevMinSize, sgNodes, curSize, origSize, shrinkPolicy, graphVersion, iter,
                 sgPeak,
                 unableDiag, parent>>

NoBackend ==
  /\ pc = "entry"
  /\ ~m_DLATB
  /\ ret' = "kPassFailure"
  /\ pc' = "returned"
  /\ UNCHANGED <<allocVars, histAlloc, m_DLATB, localMemSize, worklist, spGraph,
                 prevMinSize, sgVars, histVars>>

\* lines 119-131: scheduler and liveness run once, clear(), the manager's
\* sub-graphs (the whole graph as one) seed the worklist
Setup ==
  /\ pc = "entry"
  /\ m_DLATB
  /\ \E lv \in ModuleLives : livesInfo' = lv
  /\ schedVersion' = graphVersion
  /\ liveVersion' = graphVersion
  /\ m_MemAllocList' = <<>>
  /\ worklist' = <<1>>
  /\ status' = [status EXCEPT ![1] = "Pending"]
  /\ invoked' = invoked \cup {"scheduler", "liveness", "clear"}
  /\ pc' = "worklist"
  /\ UNCHANGED <<valMemSMap, minSize, histAlloc, m_DLATB, localMemSize, ret, spGraph,
                 prevMinSize, sgNodes, curSize, origSize, shrinkPolicy, graphVersion, iter,
                 sgPeak,
                 unableDiag, parent>>

\* the sub-graph taken from the front of the worklist (mutant)
PopWorklistFront ==
  /\ pc = "worklist"
  /\ worklist # <<>>
  /\ spGraph' = Head(worklist)
  /\ worklist' = Tail(worklist)
  /\ prevMinSize' = 0
  /\ status' = [status EXCEPT ![Head(worklist)] = "Planning"]
  /\ pc' = "planner"
  /\ UNCHANGED <<allocVars, histAlloc, m_DLATB, localMemSize, ret, sgVars, invoked, iter,
                 sgPeak, unableDiag, parent>>

\* the sub-graph taken from the back but left in the worklist (mutant)
PopWorklistKeeps ==
  /\ pc = "worklist"
  /\ worklist # <<>>
  /\ spGraph' = worklist[Len(worklist)]
  /\ worklist' = worklist
  /\ prevMinSize' = 0
  /\ status' = [status EXCEPT ![worklist[Len(worklist)]] = "Planning"]
  /\ pc' = "planner"
  /\ UNCHANGED <<allocVars, histAlloc, m_DLATB, localMemSize, ret, sgVars, invoked, iter,
                 sgPeak, unableDiag, parent>>

\* spGraph = worklist.back(); worklist.pop_back(); prevMinSize = 0
PopWorklist ==
  /\ pc = "worklist"
  /\ worklist # <<>>
  /\ spGraph' = worklist[Len(worklist)]
  /\ worklist' = SubSeq(worklist, 1, Len(worklist) - 1)
  /\ prevMinSize' = 0
  /\ status' = [status EXCEPT ![worklist[Len(worklist)]] = "Planning"]
  /\ pc' = "planner"
  /\ UNCHANGED <<allocVars, histAlloc, m_DLATB, localMemSize, ret, sgVars, invoked, iter,
                 sgPeak, unableDiag, parent>>

\* worklist.empty(): sgMgr.dump(); return kModuleNoChanged
ReturnNoChanged ==
  /\ pc = "worklist"
  /\ worklist = <<>>
  /\ ret' = "kModuleNoChanged"
  /\ pc' = "returned"
  /\ UNCHANGED <<allocVars, histAlloc, m_DLATB, localMemSize, worklist, spGraph,
                 prevMinSize, sgVars, histVars>>

\* lines 141-150 of one planner iteration: getMemUsage and allocByLiveness
TryAllocate(res) ==
  /\ valMemSMap' = GetMemUsage(spGraph)
  /\ m_MemAllocList' = res.list
  /\ minSize' = res.minSize
  /\ UNCHANGED <<livesInfo, histAlloc, m_DLATB, localMemSize, origSize, shrinkPolicy,
                 schedVersion, liveVersion>>

IterRecord(res, calls, sizes) ==
  [sg |-> spGraph, prev |-> prevMinSize, peak |-> res.minSize, calls |-> calls,
   sizesAtSplit |-> sizes, schedVersion |-> schedVersion, liveVersion |-> liveVersion,
   graphVersion |-> graphVersion]

\* an iteration that ends at line 152: the allocation fits
Accept ==
  /\ pc = "planner"
  /\ \E res \in AllocByLiveness(GetMemUsage(spGraph), livesInfo) :
       /\ TryAllocate(res)
       /\ Fits(res.minSize, localMemSize)
       /\ iter' = IterRecord(res, <<"getMemUsage", "allocByLiveness">>, <<>>)
       /\ sgPeak' = [sgPeak EXCEPT ![spGraph] = res.minSize]
  /\ invoked' = invoked \cup {"getMemUsage", "allocByLiveness"}
  /\ status' = [status EXCEPT ![spGraph] = "Accepted"]
  /\ pc' = "worklist"
  /\ UNCHANGED <<ret, worklist, spGraph, prevMinSize, sgNodes, curSize, graphVersion,
                 unableDiag, parent>>

\* an iteration that ends at line 174: prevMinSize = minSize; shrinkSize()
Shrink ==
  /\ pc = "planner"
  /\ \E res \in AllocByLiveness(GetMemUsage(spGraph), livesInfo) :
       /\ TryAllocate(res)
       /\ ~Fits(res.minSize, localMemSize)
       /\ ~SplitRequired(res.minSize, prevMinSize)
       /\ prevMinSize' = res.minSize
       /\ sgPeak' = [sgPeak EXCEPT ![spGraph] = res.minSize]
       /\ iter' = IterRecord(res, <<"getMemUsage", "allocByLiveness", "shrinkSize">>, <<>>)
  /\ curSize' \in ShrinkSize(spGraph)
  /\ invoked' = invoked \cup {"getMemUsage", "allocByLiveness", "shrinkSize"}
  /\ UNCHANGED <<pc, ret, worklist, spGraph, sgNodes, graphVersion, status, unableDiag, parent>>

\* an iteration that takes the branch of line 156 and gets a new sub-graph:
\* prevMinSize = 0; resetToOrigSize(); splitNewSubGraph(); push_back; continue.
\* With doReset = FALSE the reset is left out (mutant).
SplitPushBody(doReset) ==
  /\ pc = "planner"
  /\ \E res \in AllocByLiveness(GetMemUsage(spGraph), livesInfo) :
       /\ TryAllocate(res)
       /\ ~Fits(res.minSize, localMemSize)
       /\ SplitRequired(res.minSize, prevMinSize)
       /\ LET sizes == IF doReset THEN ResetToOrigSize(spGraph) ELSE curSize
              new == Len(sgNodes) + 1
          IN  /\ curSize' = sizes
              /\ iter' = IterRecord(res,
                           IF doReset
                           THEN <<"getMemUsage", "allocByLiveness", "resetToOrigSize",
                                  "splitNewSubGraph">>
                           ELSE <<"getMemUsage", "allocByLiveness", "splitNewSubGraph">>,
                           [v \in sgNodes[spGraph] |-> sizes[v]])
              /\ \E S \in SplitNewSubGraph(spGraph) :
                   sgNodes' = Append([sgNodes EXCEPT ![spGraph] = sgNodes[spGraph] \ S], S)
              /\ worklist' = Append(worklist, new)
              /\ status' = Append(status, "Pending")
              /\ sgPeak' = Append([sgPeak EXCEPT ![spGraph] = res.minSize], 0)
  /\ prevMinSize' = 0
  /\ graphVersion' = graphVersion + 1
  /\ invoked' = invoked \cup {"getMemUsage", "allocByLiveness", "splitNewSubGraph"}
                        \cup (IF doReset THEN {"resetToOrigSize"} ELSE {})
  /\ parent' = Append(parent, spGraph)
  /\ UNCHANGED <<pc, ret, spGraph, unableDiag>>

\* the split requested without resetToOrigSize (mutant)
SplitPushNoReset == SplitPushBody(FALSE)

SplitPush == SplitPushBody(TRUE)

\* the branch of line 156 when splitNewSubGraph returns no sub-graph; with
\* fatal = TRUE the pass returns kPassFailure there instead of going on
AbandonBody(fatal) ==
  /\ pc = "planner"
  /\ \E res \in AllocByLiveness(GetMemUsage(spGraph), livesInfo) :
       /\ TryAllocate(res)
       /\ ~Fits(res.minSize, localMemSize)
       /\ SplitRequired(res.minSize, prevMinSize)
       /\ sgPeak' = [sgPeak EXCEPT ![spGraph] = res.minSize]
       /\ iter' = IterRecord(res, <<"getMemUsage", "allocByLiveness", "resetToOrigSize",
                                    "splitNewSubGraph">>,
                             [v \in sgNodes[spGraph] |-> ResetToOrigSize(spGraph)[v]])
  /\ curSize' = ResetToOrigSize(spGraph)
  /\ prevMinSize' = 0
  /\ unableDiag' = unableDiag \cup {spGraph}
  /\ status' = [status EXCEPT ![spGraph] = "Abandoned"]
  /\ invoked' = invoked \cup {"getMemUsage", "allocByLiveness", "resetToOrigSize",
                              "splitNewSubGraph"}
  /\ IF fatal THEN pc' = "returned" /\ ret' = "kPassFailure"
              ELSE pc' = "worklist" /\ ret' = ret
  /\ UNCHANGED <<worklist, spGraph, sgNodes, graphVersion, parent>>

\* the abandonment ending the pass with kPassFailure (mutant)
AbandonFatal == AbandonBody(TRUE)

\* an iteration that takes the branch of line 156 and gets no new sub-graph:
\* the diagnostic of line 167, break
Abandon == AbandonBody(FALSE)

Next ==
  \/ NoBackend
  \/ Setup
  \/ PopWorklist
  \/ ReturnNoChanged
  \/ Accept
  \/ Shrink
  \/ SplitPush
  \/ Abandon

Spec == Init /\ [][Next]_vars

\* runOnModule is one synchronous call: it does not stop before it returns
FairSpec == Spec /\ WF_vars(Next)

\* ------------------------------------------------------------- SpecDeep
\* The pass on a module of NumNodesDeep values of small sizes: a sub-graph can
\* be split more than once, so the worklist holds several entries at a time.
InitDeep ==
  /\ origSize \in [1..NumNodesDeep -> 1..MaxNodeSize]
  /\ curSize = origSize
  /\ shrinkPolicy = "any"
  /\ InitCommon
  /\ livesInfo = <<>>
  /\ valMemSMap = <<>>
  /\ m_DLATB \in BOOLEAN
  /\ localMemSize \in 1..MaxBudget

SpecDeep == InitDeep /\ [][Next]_vars

\* ------------------------------------------------------------ SpecTenth
\* The forced-split scenario: first peak 1000 against a budget of 500
Scenario == [peak |-> 1000, budget |-> 500]

\* modules whose first peak is the scenario's when the values are placed as
\* the scenario needs: one value, two values live together, two values live
\* apart
ScenarioSizes == { <<1000>>, <<600, 400>>, <<1000, 300>> }

\* The pass on the scenario's modules, with a shrinkSize that takes 10% off
\* every size of the sub-graph per call, rounding down or rounding up.
InitTenth ==
  /\ origSize \in ScenarioSizes
  /\ curSize = origSize
  /\ shrinkPolicy \in {"tenthDown", "tenthUp"}
  /\ InitCommon
  /\ livesInfo = <<>>
  /\ valMemSMap = <<>>
  /\ m_DLATB \in BOOLEAN
  /\ localMemSize = Scenario.budget

SpecTenth == InitTenth /\ [][Next]_vars

\* ------------------------------------------------------------ SpecAlloc
\* The allocator alone, on every size map and every list of live intervals
\* within the bounds.
InitAlloc ==
  /\ origSize = [v \in 1..NumNodes |-> 1]
  /\ curSize = origSize
  /\ shrinkPolicy = "any"
  /\ InitCommon
  /\ \E n \in 0..MaxVals :
       /\ livesInfo \in LiveLists(n)
       /\ valMemSMap \in SizeMaps(n)
  /\ m_DLATB = TRUE
  /\ localMemSize = 1

\* one call of allocByLiveness(valMemSMap)
RunAlloc ==
  /\ runs < MaxRuns
  /\ \E res \in AllocByLiveness(valMemSMap, livesInfo) :
       /\ m_MemAllocList' = res.list
       /\ minSize' = res.minSize
  /\ prevRun' = [list |-> m_MemAllocList, minSize |-> minSize]
  /\ runs' = runs + 1
  /\ UNCHANGED <<livesInfo, valMemSMap, ctlVars, sgVars, histVars>>

NextAlloc == RunAlloc

SpecAlloc == InitAlloc /\ [][NextAlloc]_vars

\* ------------------------------------------------------------- claims
EntryEnd(e) == e.startAddr + e.size

RECURSIVE MaxEnd(_, _)
MaxEnd(list, i) == IF i > Len(list) THEN 0 ELSE Max(EntryEnd(list[i]), MaxEnd(list, i + 1))

\* C1: after a run of allocByLiveness, any two distinct entries whose live
\* intervals intersect occupy disjoint address ranges [startAddr, startAddr+size).
NoOverlap ==
  runs >= 1 =>
    \A i, j \in 1..Len(m_MemAllocList) :
      (i # j /\ Intersect(m_MemAllocList[i].liveIntrvl, m_MemAllocList[j].liveIntrvl))
        => ~HasConflict(m_MemAllocList[i].startAddr, m_MemAllocList[i].size,
                        m_MemAllocList[j].startAddr, m_MemAllocList[j].size)

\* C2: the value allocByLiveness returns is the maximum of startAddr+size over
\* the entries the run created, and 0 when it created none.
PeakCorrect ==
  runs >= 1 =>
    /\ minSize = MaxEnd(m_MemAllocList, 1)
    /\ (m_MemAllocList = <<>> => minSize = 0)

\* C2 witness: a run has placed several entries and the peak is not the end of
\* the entry placed last.
PeakCorrectWitness ==
  /\ runs >= 1
  /\ Len(m_MemAllocList) >= 3
  /\ minSize > EntryEnd(m_MemAllocList[Len(m_MemAllocList)])
  /\ minSize = MaxEnd(m_MemAllocList, 1)

\* C3: two runs of the allocator on the same size map and the same live
\* intervals in the same order give every value the same address and the same
\* peak, whatever order the sort leaves regions of equal start address in.
Deterministic ==
  runs >= 2 => (m_MemAllocList = prevRun.list /\ minSize = prevRun.minSize)

Called(name) == \E k \in 1..Len(iter.calls) : iter.calls[k] = name

SubGraphs == 1..Len(status)

\* C4: a sub-graph is Accepted only when the peak of its last allocator run is
\* strictly below the local memory size; a peak equal to the budget is not
\* accepted.
BudgetSafety ==
  \A sg \in SubGraphs : status[sg] = "Accepted" => sgPeak[sg] < localMemSize

\* C4 witness: a sub-graph accepted with a non-empty allocation whose peak is
\* one below the budget.
BudgetSafetyWitness ==
  \E sg \in SubGraphs :
    status[sg] = "Accepted" /\ sgPeak[sg] > 0 /\ sgPeak[sg] = localMemSize - 1

\* C5: for an allocator run whose peak is not below the budget, the planner
\* signals split-required if and only if prevMinSize > 0 and
\* 10*peak > 9*prevMinSize; otherwise it records prevMinSize = peak and calls
\* shrinkSize.
SplitThreshold ==
  (iter.sg # 0 /\ iter.peak >= localMemSize) =>
    /\ Called("splitNewSubGraph") <=> (iter.prev > 0 /\ 10 * iter.peak > 9 * iter.prev)
    /\ ~Called("splitNewSubGraph") =>
         (prevMinSize = iter.peak /\ iter.calls[Len(iter.calls)] = "shrinkSize")

\* C6: every call of splitNewSubGraph comes right after a call of
\* resetToOrigSize on the same sub-graph, after the failing allocator run and
\* with no shrinkSize in between, and sees the sub-graph's original sizes.
ResetBeforeSplit ==
  \A k \in 1..Len(iter.calls) :
    iter.calls[k] = "splitNewSubGraph" =>
      /\ k >= 3
      /\ iter.calls[k - 1] = "resetToOrigSize"
      /\ iter.calls[k - 2] = "allocByLiveness"
      /\ iter.sizesAtSplit = [v \in DOMAIN iter.sizesAtSplit |-> origSize[v]]

\* C6 witness: a split was requested for a sub-graph whose failing allocator
\* run used shrunk sizes, so the reset changed them.
ResetBeforeSplitWitness ==
  /\ Called("splitNewSubGraph")
  /\ valMemSMap # iter.sizesAtSplit
  /\ iter.sizesAtSplit = [v \in DOMAIN iter.sizesAtSplit |-> origSize[v]]

\* C7: no allocator run uses a schedule or live intervals computed before the
\* most recent structural split.
NoStaleLiveness ==
  iter.sg # 0 =>
    (iter.liveVersion = iter.graphVersion /\ iter.schedVersion = iter.graphVersion)

\* C8: when splitNewSubGraph returns no sub-graph the diagnostic is printed,
\* that sub-graph is not planned any further, the sub-graphs left in the
\* worklist are all processed, and the pass does not return a failure status.
AbandonIsLocal ==
  /\ \A sg \in SubGraphs : status[sg] = "Abandoned" <=> sg \in unableDiag
  /\ \A sg \in SubGraphs : status[sg] = "Abandoned" => ~(pc = "planner" /\ spGraph = sg)
  /\ m_DLATB => ret # "kPassFailure"
  /\ (pc = "returned" /\ m_DLATB) =>
       /\ worklist = <<>>
       /\ ret = "kModuleNoChanged"
       /\ \A sg \in SubGraphs : status[sg] \in {"Accepted", "Abandoned"}

\* C8 witness: the pass has returned, the first sub-graph was abandoned and the
\* sub-graph split off from it, still in the worklist then, was planned and
\* accepted afterwards.
AbandonIsLocalWitness ==
  /\ pc = "returned"
  /\ Len(status) >= 2
  /\ status[1] = "Abandoned"
  /\ status[2] = "Accepted"
  /\ sgPeak[2] > 0

\* C9: without a backend runOnModule returns kPassFailure at once: no
\* collaborator is ever invoked and the allocation entry list stays as it was.
FatalPrecondition ==
  ~m_DLATB =>
    /\ pc \in {"entry", "returned"}
    /\ invoked = {}
    /\ m_MemAllocList = <<>>
    /\ livesInfo = <<>>
    /\ pc = "returned" => ret = "kPassFailure"

\* C9 witness: runOnModule has returned on a pass built without a backend.
FatalPreconditionWitness == ~m_DLATB /\ pc = "returned" /\ ret = "kPassFailure"

\* C10: the planner loop, with a shrink operation that never grows a size and
\* stops at a floor, reaches acceptance or a split-required signal after
\* finitely many shrinkSize calls.
PlannerTerminates ==
  [](pc = "planner" => <>(pc # "planner" \/ Called("splitNewSubGraph")))

\* C10 witness: a sub-graph was accepted after at least one shrinkSize call.
PlannerTerminatesWitness ==
  /\ pc = "worklist"
  /\ iter.sg # 0
  /\ iter.prev > 0
  /\ status[iter.sg] = "Accepted"


\* ------------------------------------------- claims about the entry list
\* the supplied live intervals whose value is a key of the size map, in order
KeyedLives == SelectSeq(livesInfo, LAMBDA li : li.value \in DOMAIN valMemSMap)

\* the address ranges [a1, a1+s1) and [a2, a2+s2) share an address
Overlaps(a1, s1, a2, s2) == \E x \in a1..(a1 + s1 - 1) : x >= a2 /\ x < a2 + s2

\* the entries placed before entry k whose live interval intersects entry k's
ConflictsOf(list, k) ==
  { j \in 1..(k - 1) : Intersect(list[j].liveIntrvl, list[k].liveIntrvl) }

\* address a is free for entry k: [a, a+size) overlaps no conflicting region
FreeAt(list, k, a) ==
  \A j \in ConflictsOf(list, k) :
    ~Overlaps(a, list[k].size, list[j].startAddr, list[j].size)

\* entry k is at the lowest free address
AtLowestFree(list, k) ==
  /\ FreeAt(list, k, list[k].startAddr)
  /\ \A b \in 0..(list[k].startAddr - 1) : ~FreeAt(list, k, b)

\* C14: every run discards the entries of earlier runs; after a run the list
\* holds exactly one entry for each supplied live interval whose value is a key
\* of the size map, in the order supplied, with the requested size and that
\* interval, and no entry for any other value.
FullReset ==
  runs >= 1 =>
    /\ Len(m_MemAllocList) = Len(KeyedLives)
    /\ \A k \in 1..Len(KeyedLives) :
         /\ m_MemAllocList[k].liveIntrvl = KeyedLives[k]
         /\ m_MemAllocList[k].size = valMemSMap[KeyedLives[k].value]

\* C14 witness: a second run over a list that held entries of the first, with
\* a supplied value that is not a key of the size map.
FullResetWitness ==
  /\ runs = 2
  /\ Len(prevRun.list) >= 2
  /\ Len(m_MemAllocList) = Len(prevRun.list)
  /\ Len(m_MemAllocList) < Len(livesInfo)

\* C15: the address of every entry is the lowest address a >= 0 such that
\* [a, a+size) overlaps none of the regions of the entries placed before it
\* whose live interval intersects its own.
LowestFreeGap ==
  runs >= 1 => \A k \in 1..Len(m_MemAllocList) : AtLowestFree(m_MemAllocList, k)

\* the three values A(10,[0,2]), B(20,[1,3]), C(10,[3,4]) of the example
ExampleLives ==
  <<[value |-> 1, start |-> 0, end |-> 2], [value |-> 2, start |-> 1, end |-> 3],
    [value |-> 3, start |-> 3, end |-> 4]>>
ExampleSizes == <<10, 20, 10>>
ExampleResult ==
  [list |-> <<MemAllocEntry(0, 10, ExampleLives[1]), MemAllocEntry(10, 20, ExampleLives[2]),
              MemAllocEntry(0, 10, ExampleLives[3])>>,
   minSize |-> 30]

\* C16: a value is placed at address 0 whenever no entry placed before it with
\* an intersecting live interval overlaps [0, size), in particular when no
\* earlier interval intersects its own; the values A, B, C of the example get
\* the addresses 0, 10, 0 and the peak 30.
AddressReuse ==
  /\ runs >= 1 =>
       \A k \in 1..Len(m_MemAllocList) :
         FreeAt(m_MemAllocList, k, 0) => m_MemAllocList[k].startAddr = 0
  /\ AllocByLiveness(ExampleSizes, ExampleLives) = {ExampleResult}

\* C16 witness: an entry at address 0 that reuses the address of an earlier
\* entry whose interval has ended, while an intersecting entry lies above it.
AddressReuseWitness ==
  /\ runs >= 1
  /\ \E k \in 1..Len(m_MemAllocList) :
       /\ m_MemAllocList[k].startAddr = 0
       /\ \E j \in 1..(k - 1) :
            /\ j \notin ConflictsOf(m_MemAllocList, k)
            /\ m_MemAllocList[j].startAddr = 0
       /\ \E i \in ConflictsOf(m_MemAllocList, k) : m_MemAllocList[i].startAddr > 0

\* the supplied live intervals are in non-decreasing order of start position
SortedByStart ==
  \A i, j \in 1..Len(livesInfo) : i < j => livesInfo[i].start <= livesInfo[j].start

\* C19: when the live intervals are supplied in non-decreasing order of start,
\* the conflicting regions of each value are pairwise disjoint in address and
\* the scan places the value at the lowest address free of all of them, so no
\* two entries with intersecting intervals overlap.
SortedInputSound ==
  (runs >= 1 /\ SortedByStart) =>
    \A k \in 1..Len(m_MemAllocList) :
      /\ \A i, j \in ConflictsOf(m_MemAllocList, k) :
           i # j => ~Overlaps(m_MemAllocList[i].startAddr, m_MemAllocList[i].size,
                              m_MemAllocList[j].startAddr, m_MemAllocList[j].size)
      /\ AtLowestFree(m_MemAllocList, k)

\* C19 witness: sorted input where a value has two conflicting regions, the
\* lower-addressed one placed later, and the scan passes over both.
SortedInputSoundWitness ==
  /\ runs >= 1
  /\ SortedByStart
  /\ \E k \in 1..Len(m_MemAllocList) :
       \E i, j \in ConflictsOf(m_MemAllocList, k) :
         /\ i < j
         /\ m_MemAllocList[j].startAddr < m_MemAllocList[i].startAddr
         /\ m_MemAllocList[k].startAddr > m_MemAllocList[i].startAddr


\* ------------------------------------------- claims about the controller
Terminal == {"Accepted", "Abandoned"}

\* the values that have an entry in the allocation entry list
PlacedValues == { m_MemAllocList[k].liveIntrvl.value : k \in 1..Len(m_MemAllocList) }

\* one step of the controller keeps the worklist discipline: a terminal state
\* is final, a sub-graph is taken only while pending and is never pending
\* again, and the worklist grows only by the one sub-graph a split created
WorklistStep ==
  /\ \A sg \in SubGraphs :
       /\ status[sg] \in Terminal => status'[sg] = status[sg]
       /\ status[sg] \notin {"Created", "Pending"} => status'[sg] # "Pending"
  /\ spGraph' # spGraph =>
       /\ status[spGraph'] = "Pending"
       /\ worklist = Append(worklist', spGraph')
  /\ Len(sgNodes') > Len(sgNodes) => worklist' = Append(worklist, Len(sgNodes'))
  /\ Len(worklist') > Len(worklist) =>
       (pc = "entry" \/ (Len(sgNodes') = Len(sgNodes) + 1 /\ Called("splitNewSubGraph")'))

\* C11: with a splitting policy that cannot split a single node and a shrink
\* that never grows a size, the pass returns with the worklist empty and every
\* sub-graph that was in the worklist in exactly one terminal state, Accepted
\* or Abandoned; each sub-graph is taken from the worklist once and each split
\* adds exactly one entry.
ControllerTerminates ==
  /\ <>(pc = "returned")
  /\ [](pc = "returned" =>
         /\ worklist = <<>>
         /\ \A sg \in SubGraphs : status[sg] # "Created" => status[sg] \in Terminal)
  /\ [][WorklistStep]_vars

\* C11 witness: the pass has returned after a split, the first sub-graph
\* accepted and the one split off from it abandoned.
ControllerTerminatesWitness ==
  /\ pc = "returned"
  /\ worklist = <<>>
  /\ Len(status) >= 2
  /\ status[1] = "Accepted"
  /\ status[2] = "Abandoned"

\* C17: when the pass finishes with more than one sub-graph processed, the
\* allocation entry list holds a placement for every value of every sub-graph
\* that reached Accepted.
AcceptedRetained ==
  (pc = "returned" /\ Len(status) > 1) =>
    \A sg \in SubGraphs : status[sg] = "Accepted" => sgNodes[sg] \subseteq PlacedValues

\* C18: when the pass finishes, the allocation entry list holds no entry of a
\* value of an Abandoned sub-graph and the peak of the entries it holds is
\* below the budget.
AbandonedUnplaced ==
  (pc = "returned" /\ m_DLATB) =>
    /\ \A sg \in SubGraphs : status[sg] = "Abandoned" => sgNodes[sg] \cap PlacedValues = {}
    /\ MaxEnd(m_MemAllocList, 1) < localMemSize

\* C20: within a planning round each recorded candidate peak is at most 90% of
\* the one recorded before it, and an attempt whose peak is not below the
\* budget and not lower than the previous one signals a split.
RoundPeaksFall ==
  (iter.sg # 0 /\ iter.prev > 0) =>
    /\ Called("shrinkSize") => 10 * iter.peak <= 9 * iter.prev
    /\ (iter.peak >= iter.prev /\ iter.peak >= localMemSize) => Called("splitNewSubGraph")


\* the step takes a sub-graph from the worklist
Takes == spGraph' # spGraph

\* sub-graphs are numbered in the order they are added to the worklist, so the
\* most recently added entry is the one with the highest number
LifoStep ==
  Takes =>
    /\ \E k \in 1..Len(worklist) : worklist[k] = spGraph'
    /\ \A k \in 1..Len(worklist) : worklist[k] <= spGraph'
    /\ \A k \in 1..Len(worklist') : worklist'[k] < spGraph'
    /\ parent[spGraph'] # 0 => status[parent[spGraph']] \in Terminal

\* C12: the sub-graph taken for processing is the most recently added entry
\* still in the worklist; a sub-graph split off while its parent is processed
\* is taken only after the parent is Accepted or Abandoned, and before every
\* entry that was in the worklist earlier.
LifoWorklist == [][LifoStep]_vars

\* C12 witness: the sub-graph split off second is being planned while the one
\* split off first from the same parent still waits in the worklist.
LifoWorklistWitness ==
  /\ pc = "planner"
  /\ Len(status) >= 3
  /\ spGraph = 3
  /\ parent[3] = 1
  /\ parent[2] = 1
  /\ status[1] \in Terminal
  /\ worklist = <<2>>


\* the pass runs on a module whose first allocator run has the scenario's peak
\* against the scenario's budget
ScenarioHolds ==
  /\ m_DLATB
  /\ pc # "entry"
  /\ localMemSize = Scenario.budget
  /\ shrinkPolicy \in {"tenthDown", "tenthUp"}
  /\ \A res \in AllocByLiveness(origSize, livesInfo) : res.minSize = Scenario.peak

\* a split was signalled while the first sub-graph was planned
SplitSignalled == status[1] = "Abandoned" \/ \E sg \in SubGraphs : parent[sg] = 1

====
